---------------------------- MODULE Spec2Model ----------------------------
(***************************************************************************)
(* Model of Jeux.py: SkyrockGamingAnalyzer (the dataset and its aggregate  *)
(* queries) and GamingScenarioSimulator (per-year multiplier scenarios).   *)
(*                                                                         *)
(* Python objects are modelled by reference: a dict is an identity plus an *)
(* insertion-ordered sequence of items (year, address of the per-year      *)
(* record), and the per-year records live in `heap`.  dict.copy() is the   *)
(* shallow copy Python performs: a new dict identity whose items hold the  *)
(* same record addresses.                                                  *)
(*                                                                         *)
(* Floats are modelled by exact rationals <<n, d>> in lowest terms with    *)
(* d > 0; round(x, 2) is round-half-to-even on the exact value.            *)
(***************************************************************************)
EXTENDS Integers, Sequences, FiniteSets, TLC

VARIABLES heap, gaming_data, base_data, simulated_data, ret, ncalls, original

vars == <<heap, gaming_data, base_data, simulated_data, ret, ncalls, original>>

(***************************************************************************)
(* Bounds.                                                                 *)
(***************************************************************************)
\* Number of simulate_scenario calls explored on one simulator.
MaxCalls == 2

(***************************************************************************)
(* Rational arithmetic standing for Python float arithmetic.               *)
(***************************************************************************)
Abs(n) == IF n < 0 THEN -n ELSE n

RECURSIVE GCD(_, _)
GCD(a, b) == IF b = 0 THEN a ELSE GCD(b, a % b)

\* The rational n/d (d # 0) in lowest terms with a positive denominator.
R(n, d) ==
    LET g == GCD(Abs(n), Abs(d))
        s == IF d < 0 THEN -1 ELSE 1
    IN  <<(s * n) \div g, (s * d) \div g>>

Zero == R(0, 1)
RInt(n) == R(n, 1)
RAdd(a, b) == R(a[1] * b[2] + b[1] * a[2], a[2] * b[2])
RSub(a, b) == R(a[1] * b[2] - b[1] * a[2], a[2] * b[2])
RMul(a, b) == R(a[1] * b[1], a[2] * b[2])
RDiv(a, b) == R(a[1] * b[2], a[2] * b[1])
RLt(a, b) == a[1] * b[2] < b[1] * a[2]
RLe(a, b) == a[1] * b[2] <= b[1] * a[2]

\* A variant of int that rounds to the nearest integer instead of truncating.
int_nearest(x) == (2 * x[1] + x[2]) \div (2 * x[2])

\* Python int(x) on a float: truncation toward zero.
int(x) == IF x[1] >= 0 THEN x[1] \div x[2] ELSE -((-x[1]) \div x[2])

\* Python round(x, 2): nearest multiple of 0.01, ties to the even multiple.
round2(x) ==
    LET n == x[1] * 100
        d == x[2]
        f == n \div d
        r == n - f * d
        k == IF 2 * r < d THEN f
             ELSE IF 2 * r > d THEN f + 1
             ELSE IF f % 2 = 0 THEN f ELSE f + 1
    IN  R(k, 100)

(***************************************************************************)
(* The dataset literal and the reference market series.                    *)
(***************************************************************************)
\* One per-year record: {'revenue': .., 'players': .., 'bets': .., 'type': ..}.
Rec(revenue, players, bets, type) ==
    [revenue |-> revenue, players |-> players, bets |-> bets, type |-> type]

\* The dict literal of _create_gaming_revenue_data, in its insertion order.
create_gaming_revenue_data ==
    << [year |-> 2010, data |-> Rec(R(8, 10), 15000, R(125, 10), "Lancement")],
       [year |-> 2011, data |-> Rec(R(15, 10), 28000, R(250, 10), "Croissance")],
       [year |-> 2012, data |-> Rec(R(22, 10), 42000, R(385, 10), "Croissance")],
       [year |-> 2013, data |-> Rec(R(28, 10), 55000, R(520, 10), "Croissance")],
       [year |-> 2014, data |-> Rec(R(35, 10), 68000, R(685, 10), "Pic")],
       [year |-> 2015, data |-> Rec(R(42, 10), 75000, R(850, 10), "Pic")],
       [year |-> 2016, data |-> Rec(R(40, 10), 72000, R(780, 10), "Stabilisation")],
       [year |-> 2017, data |-> Rec(R(38, 10), 70000, R(725, 10), "Stabilisation")],
       [year |-> 2018, data |-> Rec(R(32, 10), 65000, R(650, 10), "Declin")],
       [year |-> 2019, data |-> Rec(R(25, 10), 55000, R(550, 10), "Declin")],
       [year |-> 2020, data |-> Rec(R(18, 10), 40000, R(425, 10), "COVID")],
       [year |-> 2021, data |-> Rec(R(12, 10), 30000, R(350, 10), "Declin")],
       [year |-> 2022, data |-> Rec(R(9, 10), 25000, R(285, 10), "Residuel")],
       [year |-> 2023, data |-> Rec(R(7, 10), 22000, R(250, 10), "Residuel")] >>

\* The market_size literal of analyze_market_share (billions of euros).
market_size ==
    (2010 :> R(8, 10)) @@ (2011 :> R(12, 10)) @@ (2012 :> R(16, 10)) @@
    (2013 :> R(20, 10)) @@ (2014 :> R(24, 10)) @@ (2015 :> R(28, 10)) @@
    (2016 :> R(32, 10)) @@ (2017 :> R(36, 10)) @@ (2018 :> R(40, 10)) @@
    (2019 :> R(44, 10)) @@ (2020 :> R(48, 10)) @@ (2021 :> R(52, 10)) @@
    (2022 :> R(56, 10)) @@ (2023 :> R(60, 10))

\* The default of estimate_profits(margin_rate=0.18).
DefaultMarginRate == R(18, 100)

(***************************************************************************)
(* Dicts by reference.                                                     *)
(***************************************************************************)
\* A name that is not bound to a dict yet.
NoDict == [id |-> 0, items |-> << >>]

Keys(d) == {d.items[i].year : i \in DOMAIN d.items}

\* d[year]: the address of the record stored under the key.
Lookup(d, year) ==
    d.items[CHOOSE i \in DOMAIN d.items : d.items[i].year = year].rec

\* dict.copy(): a new dict whose items hold the same record addresses.
copy(d, newId) == [id |-> newId, items |-> d.items]

\* The value of a dict in a heap: its items with the records' contents.
Snapshot(d, h) ==
    [i \in DOMAIN d.items |->
        [year |-> d.items[i].year, data |-> h[d.items[i].rec]]]

RECURSIVE SeqMin(_)
SeqMin(s) ==
    IF Len(s) = 1 THEN s[1]
    ELSE LET m == SeqMin(Tail(s)) IN IF s[1] <= m THEN s[1] ELSE m

RECURSIVE SeqMax(_)
SeqMax(s) ==
    IF Len(s) = 1 THEN s[1]
    ELSE LET m == SeqMax(Tail(s)) IN IF s[1] >= m THEN s[1] ELSE m

\* sum([...]) over a list of floats, left to right from 0.
RECURSIVE SumUpTo(_, _)
SumUpTo(s, n) == IF n = 0 THEN Zero ELSE RAdd(SumUpTo(s, n - 1), s[n])

\* A variant of sum that leaves the last element out.
sum_but_last(s) == SumUpTo(s, IF Len(s) = 0 THEN 0 ELSE Len(s) - 1)

sum(s) == SumUpTo(s, Len(s))

\* The list of the values of one field, in the dict's iteration order.
Field(d, h, f) == [i \in DOMAIN d.items |-> h[d.items[i].rec][f]]
KeyList(d) == [i \in DOMAIN d.items |-> d.items[i].year]

(***************************************************************************)
(* Inputs.                                                                 *)
(***************************************************************************)
\* Years named by the adjustment maps; 2024 is a key of no reference record.
AdjYears == {2010, 2014, 2023, 2024}

\* Multipliers of the adjustment maps (the code accepts any number).
Multipliers == {R(0, 1), R(6, 5), R(3, 2), R(-1, 1)}

EmptyMap == [y \in {} |-> Zero]

\* The scenario_investissement literal of the main program.
scenario_investissement ==
    (2014 :> R(15, 10)) @@ (2015 :> R(15, 10)) @@
    (2016 :> R(13, 10)) @@ (2017 :> R(13, 10))

\* parameters.get('revenue_multipliers', {}) as passed to simulate_scenario.
ParameterMaps ==
    {EmptyMap, scenario_investissement,
     (2010 :> R(0, 1)) @@ (2023 :> R(0, 1)),
     (2010 :> R(3, 2)) @@ (2024 :> R(3, 2))}
    \cup {(y :> m) : y \in AdjYears, m \in Multipliers}

\* margin_rate arguments of estimate_profits, valid and not.
MarginRates == {DefaultMarginRate, R(1, 1), R(0, 1), R(3, 2), R(-1, 10)}

(***************************************************************************)
(* SkyrockGamingAnalyzer: the aggregate queries, as functions of the       *)
(* analyzer's dict d and the heap h its records live in.                   *)
(***************************************************************************)
\* An optional value: << >> for none, <<v>> for v.
None == << >>
Some(v) == <<v>>

calculate_cumulative_revenue(d, h) ==
    IF d.items = << >>
    THEN [err |-> "ValueError", val |-> None]
    ELSE LET total_revenue == sum(Field(d, h, "revenue"))
             total_bets == sum(Field(d, h, "bets"))
             total_players == SeqMax(Field(d, h, "players"))
         IN  [err |-> "none",
              val |-> Some([revenue_total |-> round2(total_revenue),
                            bets_total |-> round2(total_bets),
                            players_max |-> total_players,
                            revenue_moyen_an |->
                                round2(RDiv(total_revenue, RInt(Len(d.items)))),
                            periode |-> <<SeqMin(KeyList(d)), SeqMax(KeyList(d))>>])]

\* One entry of the profits dict of estimate_profits.
ProfitEntry(year, revenue, margin_rate) ==
    [year |-> year, revenue |-> revenue,
     profit |-> round2(RMul(revenue, margin_rate)),
     margin_rate |-> margin_rate]

estimate_profits(d, h, margin_rate) ==
    LET profits == [i \in DOMAIN d.items |->
                        ProfitEntry(d.items[i].year, h[d.items[i].rec].revenue,
                                    margin_rate)]
        total_profit == sum([i \in DOMAIN profits |-> profits[i].profit])
    IN  [err |-> "none",
         val |-> Some([profits |-> profits, total_profit |-> total_profit])]

\* One year's share: revenue (millions) over the market (billions) in percent.
MarketShareOf(skyrock_revenue, market) ==
    round2(RMul(RDiv(skyrock_revenue, RMul(market, RInt(1000))), RInt(100)))

\* A variant of analyze_market_share that skips the years the market series
\* lacks instead of failing.
analyze_market_share_skipping(d, h) ==
    LET present == SelectSeq(d.items, LAMBDA it : it.year \in DOMAIN market_size)
    IN  [err |-> "none",
         val |-> Some([i \in DOMAIN present |->
                         [year |-> present[i].year,
                          share |-> MarketShareOf(h[present[i].rec].revenue,
                                                  market_size[present[i].year])]])]

analyze_market_share(d, h) ==
    IF \E i \in DOMAIN d.items : d.items[i].year \notin DOMAIN market_size
    THEN [err |-> "KeyError", val |-> None]
    ELSE [err |-> "none",
          val |-> Some([i \in DOMAIN d.items |->
                          [year |-> d.items[i].year,
                           share |-> MarketShareOf(h[d.items[i].rec].revenue,
                                                   market_size[d.items[i].year])]])]

\* A variant of ArgMax that keeps the last item of greatest key.
RECURSIVE ArgMaxLast(_, _)
ArgMaxLast(s, n) ==
    IF n = 1 THEN 1
    ELSE LET b == ArgMaxLast(s, n - 1) IN IF RLe(s[b], s[n]) THEN n ELSE b

\* max(items, key=revenue): the index of the first item of greatest key.
RECURSIVE ArgMax(_, _)
ArgMax(s, n) ==
    IF n = 1 THEN 1
    ELSE LET b == ArgMax(s, n - 1) IN IF RLt(s[b], s[n]) THEN n ELSE b

\* min(items, key=revenue): the index of the first item of least key.
RECURSIVE ArgMin(_, _)
ArgMin(s, n) ==
    IF n = 1 THEN 1
    ELSE LET b == ArgMin(s, n - 1) IN IF RLt(s[n], s[b]) THEN n ELSE b

best_year(d, h) == d.items[ArgMax(Field(d, h, "revenue"), Len(d.items))].year
worst_year(d, h) == d.items[ArgMin(Field(d, h, "revenue"), Len(d.items))].year

first_year(d) == SeqMin(KeyList(d))
last_year(d) == SeqMax(KeyList(d))

\* A variant of growth that reports 0 over a zero first-year revenue.
growth_or_zero(d, h) ==
    LET first == h[Lookup(d, first_year(d))].revenue
        last == h[Lookup(d, last_year(d))].revenue
    IN  IF first = Zero
        THEN Some(Zero)
        ELSE Some(RMul(RDiv(RSub(last, first), first), RInt(100)))

\* The growth expression of the report; None stands for the
\* ZeroDivisionError the division raises on a zero first-year revenue.
growth(d, h) ==
    LET first == h[Lookup(d, first_year(d))].revenue
        last == h[Lookup(d, last_year(d))].revenue
    IN  IF first = Zero
        THEN None
        ELSE Some(RMul(RDiv(RSub(last, first), first), RInt(100)))

\* generate_comprehensive_report: what it has printed when it returns or
\* raises.  The three queries come first, then best and worst year, then the
\* growth figure, then the closing lookup of the 2023 record.
generate_comprehensive_report(d, h) ==
    LET cumulative == calculate_cumulative_revenue(d, h)
        market_shares == analyze_market_share(d, h)
        nothing == [best_year |-> None, worst_year |-> None, growth |-> None]
    IN  IF cumulative.err # "none"
        THEN [err |-> cumulative.err, val |-> nothing]
        ELSE IF market_shares.err # "none"
        THEN [err |-> market_shares.err, val |-> nothing]
        ELSE LET bw == [best_year |-> Some(best_year(d, h)),
                        worst_year |-> Some(worst_year(d, h)),
                        growth |-> None]
             IN  IF growth(d, h) = None
                 THEN [err |-> "ZeroDivisionError", val |-> bw]
                 ELSE [err |-> IF 2023 \in Keys(d) THEN "none" ELSE "KeyError",
                       val |-> [bw EXCEPT !.growth = growth(d, h)]]

(***************************************************************************)
(* GamingScenarioSimulator.                                                *)
(***************************************************************************)
\* The three in-place updates of one record by one multiplier.
Adjust(data, multiplier) ==
    [data EXCEPT !.revenue = RMul(data.revenue, multiplier),
                 !.players = int(RMul(RInt(data.players), multiplier)),
                 !.bets = RMul(data.bets, multiplier)]

\* The heap after the loop of simulate_scenario over parameters on dict sim.
AdjustAll(sim, h, parameters) ==
    [a \in DOMAIN h |->
        IF \E y \in DOMAIN parameters : y \in Keys(sim) /\ Lookup(sim, y) = a
        THEN Adjust(h[a], parameters[CHOOSE y \in DOMAIN parameters :
                                        y \in Keys(sim) /\ Lookup(sim, y) = a])
        ELSE h[a]]

(***************************************************************************)
(* The state machine.                                                      *)
(***************************************************************************)
\* SkyrockGamingAnalyzer(): the dict built from a literal, one fresh record
\* per year.
Construct(literal) ==
    /\ heap = [i \in DOMAIN literal |-> literal[i].data]
    /\ gaming_data = [id |-> 1,
                      items |-> [i \in DOMAIN literal |->
                                    [year |-> literal[i].year, rec |-> i]]]
    /\ base_data = NoDict
    /\ simulated_data = NoDict
    /\ ret = [op |-> "none"]
    /\ ncalls = 0
    /\ original = literal

Init == Construct(create_gaming_revenue_data)

\* GamingScenarioSimulator(analyzer)
NewSimulator ==
    /\ base_data = NoDict
    /\ base_data' = copy(gaming_data, 2)
    /\ ret' = [op |-> "GamingScenarioSimulator"]
    /\ UNCHANGED <<heap, gaming_data, simulated_data, ncalls, original>>

\* simulator.simulate_scenario(name, {'revenue_multipliers': parameters})
SimulateScenario(parameters) ==
    /\ base_data # NoDict
    /\ ncalls < MaxCalls
    /\ simulated_data' = copy(base_data, 3 + ncalls)
    /\ heap' = AdjustAll(simulated_data', heap, parameters)
    /\ ret' = [op |-> "simulate_scenario",
               parameters |-> parameters,
               input |-> Snapshot(base_data, heap),
               out |-> [err |-> "none",
                        val |-> Some(Snapshot(simulated_data', heap'))]]
    /\ ncalls' = ncalls + 1
    /\ UNCHANGED <<gaming_data, base_data, original>>

\* analyzer.calculate_cumulative_revenue()
CalculateCumulativeRevenue ==
    /\ ret' = [op |-> "calculate_cumulative_revenue",
               out |-> calculate_cumulative_revenue(gaming_data, heap)]
    /\ UNCHANGED <<heap, gaming_data, base_data, simulated_data, ncalls, original>>

\* analyzer.estimate_profits(margin_rate)
EstimateProfits(margin_rate) ==
    /\ ret' = [op |-> "estimate_profits",
               margin_rate |-> margin_rate,
               out |-> estimate_profits(gaming_data, heap, margin_rate)]
    /\ UNCHANGED <<heap, gaming_data, base_data, simulated_data, ncalls, original>>

\* analyzer.analyze_market_share()
AnalyzeMarketShare ==
    /\ ret' = [op |-> "analyze_market_share",
               out |-> analyze_market_share(gaming_data, heap)]
    /\ UNCHANGED <<heap, gaming_data, base_data, simulated_data, ncalls, original>>

\* analyzer.generate_comprehensive_report()
GenerateComprehensiveReport ==
    /\ ret' = [op |-> "generate_comprehensive_report",
               out |-> generate_comprehensive_report(gaming_data, heap)]
    /\ UNCHANGED <<heap, gaming_data, base_data, simulated_data, ncalls, original>>

\* The comparison of the main program: the total of the scenario dataset
\* against the analyzer's total, both read once simulate_scenario returned.
scenario_comparison(scenario_data, d, h) ==
    LET revenue_scenario == sum(Field(scenario_data, h, "revenue"))
        cumulative == calculate_cumulative_revenue(d, h)
    IN  IF cumulative.err # "none"
        THEN [err |-> cumulative.err, val |-> None]
        ELSE [err |-> "none",
              val |-> Some([revenue_reel |-> cumulative.val[1].revenue_total,
                            revenue_scenario |-> revenue_scenario,
                            difference |->
                                RSub(revenue_scenario,
                                     cumulative.val[1].revenue_total)])]

\* The statements of the main program that follow its simulate_scenario
\* call: revenue_scenario, revenue_reel and the printed difference.
CompareScenario ==
    /\ ret.op = "simulate_scenario"
    /\ ret' = [op |-> "scenario_comparison",
               parameters |-> ret.parameters,
               input |-> ret.input,
               out |-> scenario_comparison(simulated_data, gaming_data, heap)]
    /\ UNCHANGED <<heap, gaming_data, base_data, simulated_data, ncalls, original>>

Next ==
    \/ NewSimulator
    \/ \E parameters \in ParameterMaps : SimulateScenario(parameters)
    \/ CalculateCumulativeRevenue
    \/ \E margin_rate \in MarginRates : EstimateProfits(margin_rate)
    \/ AnalyzeMarketShare
    \/ GenerateComprehensiveReport
    \/ CompareScenario

Spec == Init /\ [][Next]_vars

(***************************************************************************)
(* The same operations over any small dataset: an analyzer whose dict      *)
(* holds up to two of three years, in either insertion order, with records *)
(* drawn from a small set; 2024 is a year the market series lacks.         *)
(***************************************************************************)
AnyYears == {2010, 2014, 2024}

AnyRecords ==
    {Rec(R(8, 10), 15000, R(125, 10), "Lancement"),
     Rec(R(15, 10), 28000, R(250, 10), "Croissance"),
     Rec(R(1, 8), 3, R(5, 2), "Residuel")}

AnyKeyLists ==
    {<< >>} \cup {<<y>> : y \in AnyYears}
            \cup {<<yz[1], yz[2]>> :
                        yz \in {p \in AnyYears \X AnyYears : p[1] # p[2]}}

AnyDatasets ==
    UNION {{[i \in DOMAIN ks |-> [year |-> ks[i], data |-> ds[i]]] :
                ds \in [DOMAIN ks -> AnyRecords]} : ks \in AnyKeyLists}

InitAny == \E literal \in AnyDatasets : Construct(literal)

SpecAny == InitAny /\ [][Next]_vars

(***************************************************************************)
(* Properties.                                                             *)
(***************************************************************************)
\* The last operation was a simulate_scenario call that returned.
Simulated == ret.op = "simulate_scenario"

\* Every multiplier of an adjustment map is in the documented range (> 0).
ValidParameters(parameters) ==
    \A y \in DOMAIN parameters : RLt(Zero, parameters[y])

\* The scenario of a dataset value: the adjusted years scaled, the others as
\* they are.
ScenarioOf(dataset, parameters) ==
    [i \in DOMAIN dataset |->
        IF dataset[i].year \in DOMAIN parameters
        THEN [year |-> dataset[i].year,
              data |-> Adjust(dataset[i].data, parameters[dataset[i].year])]
        ELSE dataset[i]]

\* C1: after any sequence of simulate_scenario calls, every record of
\* analyzer.gaming_data (revenue, players, bets, type) equals its value at
\* construction.
C1_OriginalNeverMutated == Snapshot(gaming_data, heap) = original

\* C2: the dataset a simulate_scenario call returns is the scenario of the
\* original baseline under that call's adjustments alone, whatever calls
\* came before (so equal maps give equal results).
C2_ResultFromBaselineOnly ==
    (Simulated /\ ValidParameters(ret.parameters))
        => ret.out.val = Some(ScenarioOf(original, ret.parameters))

\* k is x truncated toward zero (the floor of x when x >= 0).
IsTruncationOf(k, x) ==
    IF RLe(Zero, x)
    THEN RLe(RInt(k), x) /\ RLt(x, RInt(k + 1))
    ELSE RLe(x, RInt(k)) /\ RLt(RInt(k - 1), x)

\* C3: for every year in both the dataset and the adjustment map with a
\* multiplier m > 0, the result has revenue = m x input revenue, bets =
\* m x input bets and players = m x input players truncated to an integer.
C3_AdjustedYearsScaled ==
    Simulated =>
        \A i \in DOMAIN ret.input :
            LET y == ret.input[i].year
                in == ret.input[i].data
                res == ret.out.val[1][i].data
            IN  (y \in DOMAIN ret.parameters /\ RLt(Zero, ret.parameters[y]))
                => /\ res.revenue = RMul(ret.parameters[y], in.revenue)
                   /\ res.bets = RMul(ret.parameters[y], in.bets)
                   /\ IsTruncationOf(res.players,
                                     RMul(ret.parameters[y], RInt(in.players)))

\* A call scaled a year by m > 0 where m x players is not a whole number.
C3_Witness ==
    /\ Simulated
    /\ \E i \in DOMAIN ret.input :
          /\ ret.input[i].year \in DOMAIN ret.parameters
          /\ RLt(Zero, ret.parameters[ret.input[i].year])
          /\ ret.input[i].data.players > 0
          /\ RMul(ret.parameters[ret.input[i].year],
                  RInt(ret.input[i].data.players))[2] # 1

\* C4: years outside the adjustment map are copied unchanged; an empty map
\* gives a result equal in value to the input; and the result is a distinct
\* structure that shares no record with the input.
C4_IndependentCopy ==
    (Simulated /\ ValidParameters(ret.parameters)) =>
        /\ \A i \in DOMAIN ret.input :
              ret.input[i].year \notin DOMAIN ret.parameters
                  => ret.out.val[1][i] = ret.input[i]
        /\ ret.parameters = EmptyMap => ret.out.val = Some(ret.input)
        /\ simulated_data.id # base_data.id
        /\ \A i \in DOMAIN simulated_data.items, j \in DOMAIN base_data.items :
              simulated_data.items[i].rec # base_data.items[j].rec

\* margin_rate is in (0, 1].
ValidMarginRate(margin_rate) ==
    RLt(Zero, margin_rate) /\ RLe(margin_rate, RInt(1))

\* C5: estimate_profits with a margin rate outside (0,1], and
\* simulate_scenario with a multiplier <= 0, fail with an invalid-parameter
\* error, return no result and leave the dataset unchanged.
C5_OutOfRangeRejected ==
    /\ (ret.op = "estimate_profits" /\ ~ValidMarginRate(ret.margin_rate))
          => /\ ret.out.err = "InvalidParameterError"
             /\ ret.out.val = None
    /\ (Simulated /\ ~ValidParameters(ret.parameters))
          => /\ ret.out.err = "InvalidParameterError"
             /\ ret.out.val = None
             /\ Snapshot(base_data, heap) = ret.input

\* The sum of f over the index set S, in no particular order.
RECURSIVE SumOver(_, _)
SumOver(S, f) ==
    IF S = {} THEN Zero
    ELSE LET x == CHOOSE x \in S : TRUE
         IN  RAdd(f[x], SumOver(S \ {x}, f))

\* The dataset the analyzer holds now, by value.
Current == Snapshot(gaming_data, heap)
RevenueSum == SumOver(DOMAIN Current, [i \in DOMAIN Current |-> Current[i].data.revenue])
BetsSum == SumOver(DOMAIN Current, [i \in DOMAIN Current |-> Current[i].data.bets])

\* The parts of the totals that no rounding touches: the greatest player
\* count and the period from the least to the greatest year.
PlayersAndPeriod(v) ==
    /\ \E i \in DOMAIN Current : v.players_max = Current[i].data.players
    /\ \A i \in DOMAIN Current : v.players_max >= Current[i].data.players
    /\ \E i \in DOMAIN Current : v.periode[1] = Current[i].year
    /\ \A i \in DOMAIN Current : v.periode[1] <= Current[i].year
    /\ \E i \in DOMAIN Current : v.periode[2] = Current[i].year
    /\ \A i \in DOMAIN Current : v.periode[2] >= Current[i].year

\* C6 as stated: on a non-empty dataset the totals are the exact sums, the
\* average is the revenue total over the number of records, with the
\* greatest player count and the period, whatever the order of the records.
C6_ExactTotals ==
    (ret.op = "calculate_cumulative_revenue" /\ Current # << >>) =>
        /\ ret.out.err = "none"
        /\ ret.out.val[1].revenue_total = RevenueSum
        /\ ret.out.val[1].bets_total = BetsSum
        /\ ret.out.val[1].revenue_moyen_an = RDiv(RevenueSum, RInt(Len(Current)))
        /\ PlayersAndPeriod(ret.out.val[1])

\* C6 as amended: the two totals and the average are each rounded to two
\* decimals (the average from the unrounded sum); the rest as stated.
C6_RoundedTotals ==
    (ret.op = "calculate_cumulative_revenue" /\ Current # << >>) =>
        /\ ret.out.err = "none"
        /\ ret.out.val[1].revenue_total = round2(RevenueSum)
        /\ ret.out.val[1].bets_total = round2(BetsSum)
        /\ ret.out.val[1].revenue_moyen_an =
               round2(RDiv(RevenueSum, RInt(Len(Current))))
        /\ PlayersAndPeriod(ret.out.val[1])

\* Totals of two records held in descending year order, where the rounding
\* changes the revenue total.
C6_Witness ==
    /\ ret.op = "calculate_cumulative_revenue"
    /\ Len(Current) = 2
    /\ Current[1].year > Current[2].year
    /\ Current[1].data.revenue # Current[2].data.revenue
    /\ ret.out.val[1].revenue_total # RevenueSum

\* C7: for a valid margin rate r, each per-year profit is revenue x r and
\* total_profit is r x the sum of the revenues (floats being exact here, the
\* tolerance is equality).
C7_TotalProfitIsRateTimesRevenue ==
    (ret.op = "estimate_profits" /\ ValidMarginRate(ret.margin_rate)) =>
        /\ \A i \in DOMAIN Current :
              ret.out.val[1].profits[i].profit =
                  RMul(Current[i].data.revenue, ret.margin_rate)
        /\ ret.out.val[1].total_profit = RMul(ret.margin_rate, RevenueSum)

\* Some year of the dataset is absent from the market series.
SomeYearMissing == \E i \in DOMAIN Current : Current[i].year \notin DOMAIN market_size

\* C8 as stated: an error and no mapping when a dataset year is absent from
\* the market series; otherwise, for every year, revenue over (market size x
\* 1000) in percent.
C8_ExactShares ==
    ret.op = "analyze_market_share" =>
        IF SomeYearMissing
        THEN ret.out.err # "none" /\ ret.out.val = None
        ELSE /\ ret.out.err = "none"
             /\ DOMAIN ret.out.val[1] = DOMAIN Current
             /\ \A i \in DOMAIN Current :
                   /\ ret.out.val[1][i].year = Current[i].year
                   /\ ret.out.val[1][i].share =
                          RMul(RDiv(Current[i].data.revenue,
                                    RMul(market_size[Current[i].year], RInt(1000))),
                               RInt(100))

\* C8 as amended: the error is Python's KeyError, and each share is the
\* stated quotient rounded to two decimals.
C8_RoundedSharesOrKeyError ==
    ret.op = "analyze_market_share" =>
        IF SomeYearMissing
        THEN ret.out.err = "KeyError" /\ ret.out.val = None
        ELSE /\ ret.out.err = "none"
             /\ DOMAIN ret.out.val[1] = DOMAIN Current
             /\ \A i \in DOMAIN Current :
                   /\ ret.out.val[1][i].year = Current[i].year
                   /\ ret.out.val[1][i].share =
                          round2(RMul(RDiv(Current[i].data.revenue,
                                           RMul(market_size[Current[i].year],
                                                RInt(1000))),
                                      RInt(100)))

\* The market share was asked of a dataset whose first year the series has
\* and whose second year it lacks.
C8_Witness ==
    /\ ret.op = "analyze_market_share"
    /\ Len(Current) = 2
    /\ Current[1].year \in DOMAIN market_size
    /\ Current[2].year \notin DOMAIN market_size
    /\ ret.out.err = "KeyError"

\* The report got as far as printing the best and the worst year.
ReportedBestWorst ==
    /\ ret.op = "generate_comprehensive_report"
    /\ ret.out.val.best_year # None

\* The years whose revenue no other year's exceeds / undercuts.
MaxRevenueYears ==
    {Current[i].year : i \in {i \in DOMAIN Current :
        \A j \in DOMAIN Current : RLe(Current[j].data.revenue, Current[i].data.revenue)}}
MinRevenueYears ==
    {Current[i].year : i \in {i \in DOMAIN Current :
        \A j \in DOMAIN Current : RLe(Current[i].data.revenue, Current[j].data.revenue)}}

\* C9: the report's best (worst) year is a year of maximum (minimum)
\* revenue, and the earliest of them when several years tie.
C9_BestWorstEarliestOnTies ==
    ReportedBestWorst =>
        /\ ret.out.val.best_year[1] \in MaxRevenueYears
        /\ \A y \in MaxRevenueYears : ret.out.val.best_year[1] <= y
        /\ ret.out.val.worst_year[1] \in MinRevenueYears
        /\ \A y \in MinRevenueYears : ret.out.val.worst_year[1] <= y

\* A report over a dataset, changed by scenarios, where two years tie for
\* the maximum and two years tie for the minimum.
C9_Witness ==
    /\ ReportedBestWorst
    /\ Current # original
    /\ Cardinality(MaxRevenueYears) > 1
    /\ Cardinality(MinRevenueYears) > 1

\* The records of the earliest and of the latest year.
EarliestRecord ==
    Current[CHOOSE i \in DOMAIN Current :
                \A j \in DOMAIN Current : Current[i].year <= Current[j].year].data
LatestRecord ==
    Current[CHOOSE i \in DOMAIN Current :
                \A j \in DOMAIN Current : Current[i].year >= Current[j].year].data

\* C10: the growth figure is (latest - earliest) / earliest x 100 in
\* revenue; over an earliest revenue of exactly 0 the report fails with a
\* division by zero and no growth figure.
C10_GrowthOrDivisionByZero ==
    ReportedBestWorst =>
        IF EarliestRecord.revenue = Zero
        THEN /\ ret.out.err = "ZeroDivisionError"
             /\ ret.out.val.growth = None
        ELSE /\ ret.out.err # "ZeroDivisionError"
             /\ ret.out.val.growth =
                    Some(RMul(RDiv(RSub(LatestRecord.revenue, EarliestRecord.revenue),
                                   EarliestRecord.revenue),
                              RInt(100)))

\* A report after a scenario set the earliest year's revenue to 0.
C10_Witness ==
    /\ ReportedBestWorst
    /\ EarliestRecord.revenue = Zero
    /\ original[1].data.revenue # Zero
    /\ ret.out.err = "ZeroDivisionError"

\* The comparison of the main program ran: the scenario_investissement map
\* applied to the dataset as constructed, then the two totals.
MainComparison ==
    /\ ret.op = "scenario_comparison"
    /\ ret.parameters = scenario_investissement
    /\ ret.input = original
    /\ ret.out.err = "none"

\* The total calculate_cumulative_revenue gives on the dataset as constructed.
TotalBeforeSimulation ==
    round2(SumOver(DOMAIN original,
                   [i \in DOMAIN original |-> original[i].data.revenue]))

\* The sum over the adjusted years of (multiplier - 1) x original revenue.
ExpectedGain ==
    LET adjusted == {i \in DOMAIN original :
                        original[i].year \in DOMAIN scenario_investissement}
    IN  SumOver(adjusted,
                [i \in adjusted |->
                    RMul(RSub(scenario_investissement[original[i].year], RInt(1)),
                         original[i].data.revenue)])

\* C11: in the main run the baseline total read after simulate_scenario
\* equals the total of the dataset before the simulation, so the reported
\* difference is the sum over 2014..2017 of (multiplier - 1) x original
\* revenue, which is strictly positive.
C11_BaselineTotalUnaffected ==
    MainComparison =>
        /\ ret.out.val[1].revenue_reel = TotalBeforeSimulation
        /\ ret.out.val[1].difference = ExpectedGain
        /\ RLt(Zero, ret.out.val[1].difference)

=============================================================================
